---- MODULE Spec2Model ----
(***************************************************************************)
(* State-machine model of the fleet model-lifecycle orchestrator:          *)
(*   cloud/services/deployment_manager.py      (ModelRegistry)             *)
(*   cloud/services/labeling_service.py        (LabelingQueue)             *)
(*   cloud/services/retraining_orchestrator.py (RetrainingOrchestrator)    *)
(*   cloud/services/data_collector.py          (SampleStore)               *)
(* Strings are the values of the Python enums.  Fields that no property    *)
(* reads (file_path, created_at, metadata, notes, error texts of devices)  *)
(* are left out of the records.                                            *)
(***************************************************************************)
EXTENDS Integers, Sequences, FiniteSets, TLC

\* ---------------------------------------------------------------- bounds
NumVersions == 2
NumDevices == 2
NumArtifacts == 2
MaxClock == 4
TicksPerSecond == 2
NumSamples == 2
MaxSetLabel == 3
NumLabels == 2
NumLabelers == 2
NumCallers == 2
MaxTasks == 2
MaxBatch == 2
MaxJobs == 2

\* Python's None, for the integer-valued optional fields.
None == 0

Versions == 1..NumVersions
Devices == 1..NumDevices
Artifacts == 1..NumArtifacts
SampleIds == 1..NumSamples
Labels == 0..(NumLabels - 1)
Labelers == 1..NumLabelers
Callers == 1..NumCallers
JobThreads == 1..MaxJobs

VARIABLES
  now,                \* the wall clock, in ticks (datetime.now())
  \* DeploymentManager
  registry,           \* version -> DeployedModel
  production_version, \* version or None
  registry_file,      \* the persisted registry document (registry.json)
  deployments,        \* deployment_id -> DeploymentJob
  device_status,      \* device_id -> DeviceDeployment
  notify_device,      \* whether the notify_device callable is set
  dm_last,            \* the last DeploymentManager call and its outcome
  reported,           \* device -> terminal statuses it has reported since last targeted
  \* DataCollector (the samples table of the database)
  samples,            \* sample id -> row
  devices_table,      \* the devices table: device id -> row (one device sends the samples)
  sample_label,       \* accepted sample -> the true_label of its sample_data
  sample_queue,       \* the ingestion queue: the accepted samples not yet buffered
  buffer,             \* the in-memory buffer
  accepted,           \* how many receive_sample calls returned True (samples 1..accepted)
  durable,            \* the accepted samples whose INSERT was committed
  dc_running,         \* DataCollector.running
  wk_pc,              \* where the collector's _worker_loop stands
  wk_batch,           \* samples_to_store of the worker's _flush_buffer call
  st_pc,              \* where the stop() call stands
  st_batch,           \* samples_to_store of stop()'s _flush_buffer call
  at_stop,            \* the value of accepted when stop() was called
  \* LabelingService
  tasks,              \* task_id -> LabelingTask
  task_counter,
  nt_pc,              \* labeler -> where its get_next_task call stands
  nt_task,            \* labeler -> the task its get_next_task call has picked
  handed,             \* <<labeler, task_id>>: get_next_task returned the task to the labeler
  cb_pc,              \* caller -> where its create_labeling_batch call stands
  cb_todo,            \* caller -> the samples its loop has still to visit
  labeler_stats,      \* labeler -> its running statistics
  \* RetrainingOrchestrator
  jobs,               \* the RetrainingJob objects, in creation order
  current_job,        \* index of the current job in jobs, or None
  job_history,        \* the indices of the jobs appended to job_history
  production_accuracy,
  has_dm,             \* whether a deployment_manager was given to the constructor
  loop_pc,            \* where _worker_loop stands
  th_pc,              \* job thread -> where _run_retraining_job stands
  th_job,             \* job thread -> its local variable job
  th_err,             \* job thread -> the exception it caught, "" if none
  th_val,             \* job thread -> its local val_acc
  th_data             \* job thread -> the sample ids of train_data + val_data

dmVars == <<registry, production_version, registry_file, deployments,
            device_status, notify_device, dm_last, reported>>
igVars == <<sample_label, sample_queue, buffer, accepted, durable, dc_running, wk_pc,
            wk_batch, st_pc, st_batch, at_stop>>
dcVars == <<samples, devices_table, igVars>>
lsVars == <<tasks, task_counter, nt_pc, nt_task, handed, cb_pc, cb_todo, labeler_stats>>
roVars == <<jobs, current_job, job_history, production_accuracy, has_dm, loop_pc,
            th_pc, th_job, th_err, th_val, th_data>>
vars == <<now, dmVars, dcVars, lsVars, roVars>>

\* strftime('%Y%m%d_%H%M%S'): the clock cut to whole seconds.
Second(t) == t \div TicksPerSecond

\* =================================================== DeploymentManager

DeviceUpdateStatus ==
  {"pending", "notified", "downloading", "installing", "completed", "failed"}
\* what a device may send as status string; "bogus" is no member of the enum
StatusInputs == DeviceUpdateStatus \cup {"bogus"}

\* DeviceUpdateStatus(status), ValueError -> FAILED
ParseDeviceStatus(s) == IF s \in DeviceUpdateStatus THEN s ELSE "failed"

\* json: deployed_at.isoformat() if deployed_at else None
IsoFormat(t) == IF t = None THEN <<"null">> ELSE <<"iso", t>>
\* datetime.fromisoformat(info['deployed_at']) if info.get('deployed_at') else None
FromIsoFormat(s) == IF s = <<"null">> THEN None ELSE s[2]

\* _save_registry: the document written to registry_file
SaveRegistry(reg, pv) ==
  [models |-> [v \in DOMAIN reg |->
                 [hash_sha256 |-> reg[v].hash_sha256,
                  deployed_at |-> IsoFormat(reg[v].deployed_at),
                  is_production |-> reg[v].is_production]],
   production_version |-> pv]

\* _load_registry: the registry rebuilt from the document
LoadRegistry(doc) ==
  [v \in DOMAIN doc.models |->
     [hash_sha256 |-> doc.models[v].hash_sha256,
      deployed_at |-> FromIsoFormat(doc.models[v].deployed_at),
      is_production |-> doc.models[v].is_production]]

\* _load_registry: production_version is the last model flagged in the document,
\* None if there is none (the document written by _save_registry flags at most
\* one, so "last" picks that one)
LoadProduction(doc) ==
  LET flagged == {v \in DOMAIN doc.models : doc.models[v].is_production}
  IN IF flagged = {} THEN None ELSE CHOOSE v \in flagged : TRUE

\* a plausible slip: the previous production model is not demoted
SetProductionNoDemote(reg, pv, v, t) ==
  [reg EXCEPT ![v].is_production = TRUE, ![v].deployed_at = t]

\* _set_production: the registry after promoting v at time t
SetProduction(reg, pv, v, t) ==
  LET demoted == IF pv # None /\ pv \in DOMAIN reg
                 THEN [reg EXCEPT ![pv].is_production = FALSE]
                 ELSE reg
  IN [demoted EXCEPT ![v].is_production = TRUE, ![v].deployed_at = t]

\* deployment.target_devices or self._get_all_devices()
RolloutDevices(targets, ds) == IF targets # {} THEN targets ELSE DOMAIN ds

\* _start_rollout: the device records after notifying every rollout device
StartRollout(ds, notify, v, targets) ==
  IF notify
  THEN LET devices == RolloutDevices(targets, ds)
       IN [d \in DOMAIN ds \cup devices |->
             IF d \in devices
             THEN [target_version |-> v, status |-> "notified"]
             ELSE ds[d]]
  ELSE ds

\* _check_deployment_completion: every ROLLING_OUT job recounted from device_status
CheckDeploymentCompletion(deps, ds) ==
  [id \in DOMAIN deps |->
     IF deps[id].status # "rolling_out" THEN deps[id]
     ELSE LET devices == RolloutDevices(deps[id].target_devices, ds) \cap DOMAIN ds
              success == Cardinality({d \in devices : ds[d].status = "completed"})
              failure == Cardinality({d \in devices : ds[d].status = "failed"})
              pending == Cardinality(devices) - success - failure
          IN [deps[id] EXCEPT !.success_count = success,
                              !.failure_count = failure,
                              !.status = IF pending = 0 THEN "completed" ELSE @]]

\* register_model(model_path, version): exists = the source artifact exists
RegisterModel(v, h, exists) ==
  /\ IF ~exists
     THEN /\ UNCHANGED <<registry, registry_file>>
          /\ dm_last' = [op |-> "register", version |-> v, devices |-> {},
                         result |-> "raise"]
     ELSE /\ registry' = [w \in DOMAIN registry \cup {v} |->
                            IF w = v
                            THEN [hash_sha256 |-> h, deployed_at |-> None,
                                  is_production |-> FALSE]
                            ELSE registry[w]]
          /\ registry_file' = SaveRegistry(registry', production_version)
          /\ dm_last' = [op |-> "register", version |-> v, devices |-> {},
                         result |-> "ok"]
  /\ UNCHANGED <<now, production_version, deployments, device_status,
                 notify_device, reported, dcVars, lsVars, roVars>>

\* the body of deploy_model for a registered version (lines 106-111): what it
\* does to the manager and the clock
DeployBody(op, v, targets) ==
  /\ now < MaxClock
  /\ LET id == Second(now)
         devices == RolloutDevices(targets, device_status)
     IN /\ deployments' =
             [i \in DOMAIN deployments \cup {id} |->
                IF i = id
                THEN [model_version |-> v, target_devices |-> targets,
                      status |-> "rolling_out",
                      success_count |-> 0, failure_count |-> 0]
                ELSE deployments[i]]
        /\ registry' = SetProduction(registry, production_version, v, now)
        /\ production_version' = v
        /\ registry_file' = SaveRegistry(registry', v)
        /\ device_status' = StartRollout(device_status, notify_device, v, targets)
        /\ reported' = [d \in Devices |-> IF d \in devices THEN {} ELSE reported[d]]
        /\ dm_last' = [op |-> op, version |-> v, devices |-> devices,
                       result |-> "ok"]
        /\ now' = now + 1
        /\ UNCHANGED notify_device

\* deploy_model(version, target_devices)
DeployModel(v, targets) ==
  IF v \notin DOMAIN registry
  THEN /\ dm_last' = [op |-> "deploy", version |-> v, devices |-> {},
                      result |-> "raise"]
       /\ UNCHANGED <<now, registry, production_version, registry_file,
                      deployments, device_status, notify_device, reported,
                      dcVars, lsVars, roVars>>
  ELSE DeployBody("deploy", v, targets) /\ UNCHANGED <<dcVars, lsVars, roVars>>

\* report_device_status(device_id, status)
ReportDeviceStatus(d, s) ==
  /\ reported' = [reported EXCEPT
                    ![d] = IF s \in {"completed", "failed"} THEN @ \cup {s} ELSE @]
  /\ IF d \notin DOMAIN device_status
     THEN /\ UNCHANGED <<device_status, deployments>>
          /\ dm_last' = [op |-> "report", version |-> None, devices |-> {d},
                         result |-> "unknown"]
     ELSE /\ device_status' = [device_status EXCEPT ![d].status = ParseDeviceStatus(s)]
          /\ deployments' =
               IF ParseDeviceStatus(s) \in {"completed", "failed"}
               THEN CheckDeploymentCompletion(deployments, device_status')
               ELSE deployments
          /\ dm_last' = [op |-> "report", version |-> None, devices |-> {d},
                         result |-> "ok"]
  /\ UNCHANGED <<now, registry, production_version, registry_file, notify_device,
                 dcVars, lsVars, roVars>>

\* a plausible slip: the most recently deployed version is picked
PreviousVersionLatest(reg) ==
  LET deployed == {v \in DOMAIN reg : reg[v].deployed_at # None}
      first == {v \in deployed :
                  Cardinality({w \in deployed :
                                 reg[w].deployed_at > reg[v].deployed_at}) = 0}
  IN IF Cardinality(deployed) < 2 THEN None ELSE CHOOSE v \in first : TRUE

\* rollback(): the version with the second-most-recent deployed_at, None if
\* fewer than two versions were deployed
PreviousVersion(reg) ==
  LET deployed == {v \in DOMAIN reg : reg[v].deployed_at # None}
      second == {v \in deployed :
                   Cardinality({w \in deployed :
                                  reg[w].deployed_at > reg[v].deployed_at}) = 1}
  IN IF second = {} THEN None ELSE CHOOSE v \in second : TRUE

\* rollback(to_version); to = None stands for the omitted argument
Rollback(to) ==
  LET target == IF to = None THEN PreviousVersion(registry) ELSE to
  IN IF target = None \/ target \notin DOMAIN registry
     THEN /\ dm_last' = [op |-> "rollback", version |-> target, devices |-> {},
                         result |-> "false"]
          /\ UNCHANGED <<now, registry, production_version, registry_file,
                         deployments, device_status, notify_device, reported,
                         dcVars, lsVars, roVars>>
     ELSE DeployBody("rollback", target, {}) /\ UNCHANGED <<dcVars, lsVars, roVars>>

\* a process restart: __init__ and _load_registry on the persisted document;
\* the same notify_device callable is wired again
Restart ==
  /\ registry' = LoadRegistry(registry_file)
  /\ production_version' = LoadProduction(registry_file)
  /\ deployments' = << >>
  /\ device_status' = << >>
  /\ reported' = [d \in Devices |-> {}]
  /\ dm_last' = [op |-> "restart", version |-> None, devices |-> {},
                 result |-> "ok"]
  /\ UNCHANGED <<now, registry_file, notify_device, dcVars, lsVars, roVars>>

\* time passes
Tick ==
  /\ now < MaxClock
  /\ now' = now + 1
  /\ UNCHANGED <<dmVars, dcVars, lsVars, roVars>>

\* the services that take no part in a specification stay as constructed,
\* on an empty database
IdleIngest ==
  /\ sample_queue = << >>
  /\ buffer = << >>
  /\ accepted = 0
  /\ sample_label = << >>
  /\ durable = {}
  /\ dc_running = FALSE
  /\ wk_pc = "unborn"
  /\ wk_batch = << >>
  /\ st_pc = "idle"
  /\ st_batch = << >>
  /\ at_stop = 0

IdleStore == samples = << >> /\ devices_table = << >> /\ IdleIngest

IdleLabeling ==
  /\ tasks = << >>
  /\ task_counter = 0
  /\ nt_pc = [l \in Labelers |-> "idle"]
  /\ nt_task = [l \in Labelers |-> None]
  /\ handed = {}
  /\ cb_pc = [c \in Callers |-> "idle"]
  /\ cb_todo = [c \in Callers |-> << >>]
  /\ labeler_stats = [l \in Labelers |-> [completed |-> 0, agreed |-> 0]]

IdleOrchestrator ==
  /\ jobs = << >>
  /\ current_job = None
  /\ job_history = << >>
  /\ production_accuracy = 0
  /\ has_dm = FALSE
  /\ loop_pc = "off"
  /\ th_pc = [k \in JobThreads |-> "unborn"]
  /\ th_job = [k \in JobThreads |-> None]
  /\ th_err = [k \in JobThreads |-> ""]
  /\ th_val = [k \in JobThreads |-> 0]
  /\ th_data = [k \in JobThreads |-> {}]

InitRegistry ==
  /\ IdleStore /\ IdleLabeling /\ IdleOrchestrator
  /\ now = 1
  /\ registry = << >>
  /\ production_version = None
  /\ registry_file = [models |-> << >>, production_version |-> None]
  /\ deployments = << >>
  /\ device_status = << >>
  /\ notify_device \in BOOLEAN
  /\ dm_last = [op |-> "init", version |-> None, devices |-> {}, result |-> "ok"]
  /\ reported = [d \in Devices |-> {}]

\* the registry and its production flag: no device takes part
NextRegistry ==
  \/ \E v \in Versions, h \in Artifacts, e \in BOOLEAN : RegisterModel(v, h, e)
  \/ \E v \in Versions : DeployModel(v, {})
  \/ \E to \in Versions \cup {None} : Rollback(to)
  \/ Restart
  \/ Tick

SpecRegistry == InitRegistry /\ [][NextRegistry]_vars

\* the registry with rollback() always called without a version
NextRollback ==
  \/ \E v \in Versions, h \in Artifacts, e \in BOOLEAN : RegisterModel(v, h, e)
  \/ \E v \in Versions : DeployModel(v, {})
  \/ Rollback(None)
  \/ Restart
  \/ Tick

SpecRollback == InitRegistry /\ [][NextRollback]_vars

\* a manager constructed on a registry document that lists every version,
\* none of them deployed yet
InitRollout ==
  /\ IdleStore /\ IdleLabeling /\ IdleOrchestrator
  /\ now = 1
  /\ registry = [v \in Versions |->
                   [hash_sha256 |-> 1, deployed_at |-> None, is_production |-> FALSE]]
  /\ production_version = None
  /\ registry_file = SaveRegistry(registry, None)
  /\ deployments = << >>
  /\ device_status = << >>
  /\ notify_device \in BOOLEAN
  /\ dm_last = [op |-> "init", version |-> None, devices |-> {}, result |-> "ok"]
  /\ reported = [d \in Devices |-> {}]

\* the status strings the devices of the rollout model send
RolloutInputs == {"downloading", "completed", "failed", "bogus"}

\* rollouts to devices: deployments and the devices' status reports
NextRollout ==
  \/ \E v \in Versions, T \in SUBSET Devices : DeployModel(v, T)
  \/ \E d \in Devices, s \in RolloutInputs : ReportDeviceStatus(d, s)
  \/ Tick

SpecRollout == InitRollout /\ [][NextRollout]_vars

\* ------------------------------------------------ properties: ModelRegistry

\* C2: at-most-one production version.  In every reachable state at most one
\* registered model has is_production = TRUE, and right after a successful
\* deploy (or rollback) of v, v is flagged and every other model is not: the
\* previous production model was demoted in the step that promoted v.
C2_AtMostOneProduction ==
  /\ Cardinality({v \in DOMAIN registry : registry[v].is_production}) <= 1
  /\ (dm_last.op \in {"deploy", "rollback"} /\ dm_last.result = "ok")
       => \A w \in DOMAIN registry :
            registry[w].is_production <=> (w = dm_last.version)

\* C2 witness: a second version was deployed after a first one, which is
\* still registered with its deployment stamp and is no longer production.
C2_Witness ==
  /\ dm_last.op = "deploy" /\ dm_last.result = "ok"
  /\ \E w \in DOMAIN registry :
       /\ w # dm_last.version
       /\ registry[w].deployed_at # None
       /\ ~registry[w].is_production
       /\ registry[dm_last.version].is_production

\* C8: rollout accounting.  For a deployment with a non-empty explicit target
\* list, once every target has reported completed or failed (each exactly one
\* of the two), the job is COMPLETED, success_count is the number of targets
\* that reported completed and failure_count the number that reported failed.
C8_RolloutAccounting ==
  \A id \in DOMAIN deployments :
    LET j == deployments[id]
    IN (j.target_devices # {}
        /\ \A d \in j.target_devices : Cardinality(reported[d]) = 1)
       => /\ j.status = "completed"
          /\ j.success_count =
               Cardinality({d \in j.target_devices : reported[d] = {"completed"}})
          /\ j.failure_count =
               Cardinality({d \in j.target_devices : reported[d] = {"failed"}})

\* C9: after deploy(version, targets) returns, every target device (the
\* explicit list, or all known devices) has a DeviceDeployment record with
\* target_version = version and status NOTIFIED, whether or not a
\* notification channel is configured.
C9_TargetsNotified ==
  (dm_last.op = "deploy" /\ dm_last.result = "ok")
    => \A d \in dm_last.devices :
         /\ d \in DOMAIN device_status
         /\ device_status[d] = [target_version |-> dm_last.version,
                                status |-> "notified"]

\* C10: rollouts are independent episodes.  A status report of device d, whose
\* record targets the version of the newest rollout to d, changes no field of
\* a deployment job that lists d for another version (an older rollout).
C10_RolloutsIndependent ==
  [][\A d \in Devices : \A id \in DOMAIN deployments :
       (/\ dm_last'.op = "report" /\ dm_last'.devices = {d}
        /\ d \in DOMAIN device_status
        /\ d \in deployments[id].target_devices
        /\ deployments[id].model_version # device_status[d].target_version)
       => (id \in DOMAIN deployments' /\ deployments'[id] = deployments[id])]_vars

\* ===================================================== LabelingService

\* true_label IS NULL
Unlabeled == -1

\* the devices table of a database that holds the rows sm, ingested without
\* a true_label from one device and labeled by one set_label call each
StoredDevices(sm) ==
  IF sm = << >>
  THEN << >>
  ELSE <<[total_samples |-> Len(sm),
          labeled_samples |-> Cardinality({x \in DOMAIN sm : sm[x].true_label # Unlabeled})]>>

\* LabelingPriority
LOW == 1
MEDIUM == 2
HIGH == 3
URGENT == 4

\* confidences are counted in tenths: 0.3 and 0.5, the thresholds of _create_task
ConfHigh == 3
ConfMedium == 5
\* the confidences of the modelled samples: 0.2, 0.4, 0.6
Confs == {2, 4, 6}

\* the rows S in ORDER BY confidence ASC, rows of equal confidence in id order
SortedByConfidence(S) ==
  CHOOSE q \in [1..Cardinality(S) -> S] :
    /\ \A i, j \in 1..Cardinality(S) : i # j => q[i] # q[j]
    /\ \A i, j \in 1..Cardinality(S) :
         i < j => \/ samples[q[i]].confidence < samples[q[j]].confidence
                  \/ /\ samples[q[i]].confidence = samples[q[j]].confidence
                     /\ q[i] < q[j]

\* seq[:n]
Take(seq, n) == SubSeq(seq, 1, IF n < Len(seq) THEN n ELSE Len(seq))

\* get_unlabeled_samples(limit): the unlabeled rows, most uncertain first
GetUnlabeledSamples(limit) ==
  Take(SortedByConfidence({x \in DOMAIN samples : samples[x].true_label = Unlabeled}),
       limit)

\* _select_diverse: num_samples indices evenly spaced over the sorted list;
\* int(i * (len / num_samples)) for i = 0 .. num_samples - 1
SelectDiverse(seq, n) ==
  IF Len(seq) <= n THEN seq
  ELSE [i \in 1..n |-> seq[(((i - 1) * Len(seq)) \div n) + 1]]

\* create_labeling_batch, lines 68-77: the samples the loop visits
BatchSamples(n, strategy) ==
  LET fetched == GetUnlabeledSamples(n * 3)
  IN Take(IF strategy = "diversity" THEN SelectDiverse(fetched, n) ELSE fetched, n)

\* a _sample_has_task that finds no task
SampleHasTaskNever(tk, x) == FALSE

\* _sample_has_task, over the task table tk
SampleHasTask(tk, x) ==
  \E t \in DOMAIN tk :
    tk[t].sample_id = x /\ tk[t].status \in {"pending", "in_progress"}

\* _create_task: the priority of a confidence
PriorityOf(conf) ==
  IF conf < ConfHigh THEN HIGH ELSE IF conf < ConfMedium THEN MEDIUM ELSE LOW

\* sample.get('predicted_label', 0): the samples of the model are all predicted
\* as class 0
PredictedLabel(x) == 0

\* _create_task: the task table tk, its counter at ctr, with a new PENDING task
\* for sample x (assigned_label = Unlabeled stands for None)
CreateTask(tk, ctr, x) ==
  [t \in DOMAIN tk \cup {ctr + 1} |->
     IF t = ctr + 1
     THEN [sample_id |-> x,
           predicted_label |-> PredictedLabel(x),
           confidence |-> samples[x].confidence,
           priority |-> PriorityOf(samples[x].confidence),
           status |-> "pending",
           created_at |-> now,
           assigned_to |-> None,
           assigned_at |-> None,
           assigned_label |-> Unlabeled]
     ELSE tk[t]]

\* create_labeling_batch, lines 77-81: the whole loop over the selected samples
RECURSIVE RunBatch(_, _, _)
RunBatch(tk, ctr, todo) ==
  IF todo = << >> THEN [tasks |-> tk, task_counter |-> ctr]
  ELSE IF SampleHasTask(tk, Head(todo)) THEN RunBatch(tk, ctr, Tail(todo))
  ELSE RunBatch(CreateTask(tk, ctr, Head(todo)), ctr + 1, Tail(todo))

\* create_labeling_batch(num_samples, strategy), run without interruption
CreateBatch(n, strategy) ==
  /\ \A c \in Callers : cb_pc[c] = "idle"
  /\ RunBatch(tasks, task_counter, BatchSamples(n, strategy)).task_counter <= MaxTasks
  /\ tasks' = RunBatch(tasks, task_counter, BatchSamples(n, strategy)).tasks
  /\ task_counter' =
       RunBatch(tasks, task_counter, BatchSamples(n, strategy)).task_counter
  /\ UNCHANGED <<now, dmVars, roVars, dcVars, labeler_stats, nt_pc, nt_task, handed,
                 cb_pc, cb_todo>>

\* the samples that calls in flight may still turn into tasks
TasksInFlight ==
  LET RECURSIVE Sum(_)
      Sum(C) == IF C = {} THEN 0
                ELSE LET c == CHOOSE c \in C : TRUE
                     IN Len(cb_todo[c]) + Sum(C \ {c})
  IN Sum(Callers)

\* create_labeling_batch(num_samples, strategy), lines 64-76: the fetch and
\* the selection; the call returns at once when nothing was selected
CreateBatchBegin(c, n, strategy) ==
  /\ cb_pc[c] = "idle"
  /\ task_counter + TasksInFlight + Len(BatchSamples(n, strategy)) <= MaxTasks
  /\ cb_todo' = [cb_todo EXCEPT ![c] = BatchSamples(n, strategy)]
  /\ cb_pc' = [cb_pc EXCEPT ![c] = IF cb_todo'[c] = << >> THEN "idle" ELSE "check"]
  /\ UNCHANGED <<now, dmVars, roVars, dcVars, labeler_stats, tasks, task_counter, nt_pc,
                 nt_task, handed>>

\* create_labeling_batch, lines 77-79: the loop's test of the next sample
CreateBatchCheck(c) ==
  /\ cb_pc[c] = "check"
  /\ IF SampleHasTask(tasks, Head(cb_todo[c]))
     THEN /\ cb_todo' = [cb_todo EXCEPT ![c] = Tail(@)]
          /\ cb_pc' = [cb_pc EXCEPT
                         ![c] = IF Tail(cb_todo[c]) = << >> THEN "idle" ELSE "check"]
     ELSE /\ cb_pc' = [cb_pc EXCEPT ![c] = "create"]
          /\ UNCHANGED cb_todo
  /\ UNCHANGED <<now, dmVars, roVars, dcVars, labeler_stats, tasks, task_counter, nt_pc,
                 nt_task, handed>>

\* create_labeling_batch, lines 80-81: the task for the sample that passed the test
CreateBatchCreate(c) ==
  /\ cb_pc[c] = "create"
  /\ tasks' = CreateTask(tasks, task_counter, Head(cb_todo[c]))
  /\ task_counter' = task_counter + 1
  /\ cb_todo' = [cb_todo EXCEPT ![c] = Tail(@)]
  /\ cb_pc' = [cb_pc EXCEPT
                 ![c] = IF Tail(cb_todo[c]) = << >> THEN "idle" ELSE "check"]
  /\ UNCHANGED <<now, dmVars, roVars, dcVars, labeler_stats, nt_pc, nt_task, handed>>

\* a plausible slip: within a priority band the newest task comes first
FirstPendingNewest ==
  LET pending == {t \in DOMAIN tasks : tasks[t].status = "pending"}
      before(t, u) ==
        \/ tasks[t].priority > tasks[u].priority
        \/ /\ tasks[t].priority = tasks[u].priority
           /\ \/ tasks[t].created_at > tasks[u].created_at
              \/ (tasks[t].created_at = tasks[u].created_at /\ t > u)
  IN IF pending = {} THEN None
     ELSE CHOOSE t \in pending : \A u \in pending \ {t} : before(t, u)

\* get_next_task, lines 116-120: pending[0] after the sort by
\* (-priority, created_at); the sort is stable, the dict is in task_id order
FirstPending ==
  LET pending == {t \in DOMAIN tasks : tasks[t].status = "pending"}
      before(t, u) ==
        \/ tasks[t].priority > tasks[u].priority
        \/ /\ tasks[t].priority = tasks[u].priority
           /\ \/ tasks[t].created_at < tasks[u].created_at
              \/ (tasks[t].created_at = tasks[u].created_at /\ t < u)
  IN IF pending = {} THEN None
     ELSE CHOOSE t \in pending : \A u \in pending \ {t} : before(t, u)

\* get_next_task(labeler_id), lines 116-120: the labeler's call picks a task
NextTaskSelect(l) ==
  /\ nt_pc[l] = "idle"
  /\ FirstPending # None
  /\ nt_task' = [nt_task EXCEPT ![l] = FirstPending]
  /\ nt_pc' = [nt_pc EXCEPT ![l] = "picked"]
  /\ UNCHANGED <<now, dmVars, roVars, dcVars, labeler_stats, tasks, task_counter, handed,
                 cb_pc, cb_todo>>

\* a get_next_task that flips the task to IN_PROGRESS and records no assignment
AssignTaskUnassigned(t, l) ==
  [tasks EXCEPT ![t].status = "in_progress"]

\* get_next_task, lines 121-124: the task assigned to the labeler
AssignTask(t, l) ==
  [tasks EXCEPT ![t].assigned_to = l, ![t].assigned_at = now,
                ![t].status = "in_progress"]

\* get_next_task(labeler_id), lines 121-125: the picked task is assigned and returned
NextTaskAssign(l) ==
  /\ nt_pc[l] = "picked"
  /\ tasks' = AssignTask(nt_task[l], l)
  /\ handed' = handed \cup {<<l, nt_task[l]>>}
  /\ nt_pc' = [nt_pc EXCEPT ![l] = "idle"]
  /\ nt_task' = [nt_task EXCEPT ![l] = None]
  /\ UNCHANGED <<now, dmVars, roVars, dcVars, labeler_stats, task_counter, cb_pc, cb_todo>>

\* get_next_task(labeler_id), run without interruption
NextTask(l) ==
  /\ \A k \in Labelers : nt_pc[k] = "idle"
  /\ FirstPending # None
  /\ tasks' = AssignTask(FirstPending, l)
  /\ handed' = handed \cup {<<l, FirstPending>>}
  /\ UNCHANGED <<now, dmVars, roVars, dcVars, labeler_stats, task_counter, nt_pc,
                 nt_task, cb_pc, cb_todo>>

\* set_label(sample_id, label): UPDATE samples SET true_label
SetLabel(x, label) ==
  [y \in DOMAIN samples |->
     IF y = x THEN [samples[y] EXCEPT !.true_label = label] ELSE samples[y]]

\* set_label, lines 159-160: UPDATE devices SET labeled_samples =
\* labeled_samples + 1 on the row of the device that sent sample x
CountLabeled(x) ==
  IF x \in DOMAIN samples
  THEN [d \in DOMAIN devices_table |->
          [devices_table[d] EXCEPT !.labeled_samples = @ + 1]]
  ELSE devices_table

\* _update_labeler_stats: completed += 1, and the running mean agreement_rate
\* taken over one more task; the rate is kept as the exact fraction
\* agreed / completed, so (rate * (n - 1) + agreement) / n adds the agreement
\* to the numerator
UpdateLabelerStats(l, agreement) ==
  [labeler_stats EXCEPT ![l].completed = @ + 1,
                        ![l].agreed = @ + (IF agreement THEN 1 ELSE 0)]

\* submit_label(task_id, label, labeler_id); l = None stands for no labeler_id
SubmitLabel(t, label, l) ==
  /\ t \in DOMAIN tasks
  /\ \A d \in DOMAIN devices_table : devices_table[d].labeled_samples < MaxSetLabel
  /\ LET who == IF l # None THEN l ELSE tasks[t].assigned_to
     IN /\ tasks' = [tasks EXCEPT ![t].status = "labeled",
                                  ![t].assigned_label = label,
                                  ![t].assigned_to = who]
        /\ labeler_stats' =
             IF who # None
             THEN UpdateLabelerStats(who, label = tasks[t].predicted_label)
             ELSE labeler_stats
  /\ samples' = SetLabel(tasks[t].sample_id, label)
  /\ devices_table' = CountLabeled(tasks[t].sample_id)
  /\ UNCHANGED igVars
  /\ UNCHANGED <<now, dmVars, roVars, task_counter, nt_pc, nt_task, handed, cb_pc, cb_todo>>

\* submit_label as the labeling API calls it for the labeler who holds the
\* task (no labeler_id when the task is unassigned), with label 0
SubmitAssigned(t) == SubmitLabel(t, 0, tasks[t].assigned_to)

\* skip_task(task_id, reason)
SkipTask(t) ==
  /\ t \in DOMAIN tasks
  /\ tasks' = [tasks EXCEPT ![t].status = "skipped"]
  /\ UNCHANGED <<now, dmVars, roVars, dcVars, labeler_stats, task_counter, nt_pc,
                 nt_task, handed,
                 cb_pc, cb_todo>>

\* dispute_label(task_id, reason)
DisputeLabel(t) ==
  /\ t \in DOMAIN tasks
  /\ tasks' = [tasks EXCEPT ![t].status = "disputed"]
  /\ UNCHANGED <<now, dmVars, roVars, dcVars, labeler_stats, task_counter, nt_pc,
                 nt_task, handed,
                 cb_pc, cb_todo>>

\* a DeploymentManager that takes no part: as constructed on an empty registry
IdleRegistry ==
  /\ registry = << >>
  /\ production_version = None
  /\ registry_file = [models |-> << >>, production_version |-> None]
  /\ deployments = << >>
  /\ device_status = << >>
  /\ notify_device = FALSE
  /\ dm_last = [op |-> "init", version |-> None, devices |-> {}, result |-> "ok"]
  /\ reported = [d \in Devices |-> {}]

\* a labeling service constructed on a database that holds NumSamples
\* unlabeled samples; the calls of these specifications fall within one clock
\* tick, and a label (0) is submitted under the id of the task's assignee
InitLabeling ==
  /\ IdleRegistry /\ IdleLabeling /\ IdleOrchestrator /\ IdleIngest
  /\ now = 1
  /\ samples \in [SampleIds -> [confidence : Confs, true_label : {Unlabeled},
                             used_for_training : {FALSE}]]
  /\ devices_table = StoredDevices(samples)

\* labelers claim tasks concurrently; every other call runs on its own
NextClaiming ==
  \/ \E n \in 1..MaxBatch, st \in {"uncertainty", "diversity"} : CreateBatch(n, st)
  \/ \E l \in Labelers : NextTaskSelect(l)
  \/ \E l \in Labelers : NextTaskAssign(l)
  \/ \E t \in 1..MaxTasks : SubmitAssigned(t)
  \/ \E t \in 1..MaxTasks : SkipTask(t)
  \/ \E t \in 1..MaxTasks : DisputeLabel(t)

SpecClaiming == InitLabeling /\ [][NextClaiming]_vars

\* every call runs on its own, one after the other
NextQueue ==
  \/ \E n \in 1..MaxBatch, st \in {"uncertainty", "diversity"} : CreateBatch(n, st)
  \/ \E l \in Labelers : NextTask(l)
  \/ \E t \in 1..MaxTasks : SubmitAssigned(t)
  \/ \E t \in 1..MaxTasks : SkipTask(t)
  \/ \E t \in 1..MaxTasks : DisputeLabel(t)

SpecQueue == InitLabeling /\ [][NextQueue]_vars

\* the labeling queue and the model registry side by side, every call on its own
NextServices ==
  \/ \E n \in 1..MaxBatch : CreateBatch(n, "uncertainty")
  \/ \E l \in Labelers : NextTask(l)
  \/ \E t \in 1..MaxTasks : SubmitAssigned(t)
  \/ \E v \in Versions : RegisterModel(v, 1, TRUE)
  \/ \E v \in Versions : DeployModel(v, {})
  \/ Rollback(None)
  \/ Restart

\* both services as constructed, on a database that holds NumSamples
\* unlabeled samples of low confidence
InitServices ==
  /\ IdleRegistry /\ IdleLabeling /\ IdleOrchestrator /\ IdleIngest
  /\ now = 1
  /\ samples = [x \in SampleIds |->
                  [confidence |-> 2, true_label |-> Unlabeled,
                   used_for_training |-> FALSE]]
  /\ devices_table = StoredDevices(samples)

SpecServices == InitServices /\ [][NextServices]_vars

\* labelers take tasks and submit labels of either class, under their own id
\* or without one
NextStats ==
  \/ \E n \in 1..MaxBatch : CreateBatch(n, "uncertainty")
  \/ \E l \in Labelers : NextTask(l)
  \/ \E t \in 1..MaxTasks, label \in Labels, l \in Labelers \cup {None} :
       SubmitLabel(t, label, l)

SpecStats == InitLabeling /\ [][NextStats]_vars

\* batches selected by uncertainty, with tasks taken and skipped but no label
\* submitted and no sample ingested, while the clock advances
NextSelection ==
  \/ \E n \in 1..MaxBatch : CreateBatch(n, "uncertainty")
  \/ \E l \in Labelers : NextTask(l)
  \/ \E t \in 1..MaxTasks : SkipTask(t)
  \/ Tick

SpecSelection == InitLabeling /\ [][NextSelection]_vars

\* every call runs on its own, while the clock advances between the calls
NextPriority ==
  \/ NextQueue
  \/ Tick

SpecPriority == InitLabeling /\ [][NextPriority]_vars

\* batches are created concurrently; every other call runs on its own
NextBatches ==
  \/ \E c \in Callers, n \in 1..MaxBatch, st \in {"uncertainty", "diversity"} :
       CreateBatchBegin(c, n, st)
  \/ \E c \in Callers : CreateBatchCheck(c)
  \/ \E c \in Callers : CreateBatchCreate(c)
  \/ \E l \in Labelers : NextTask(l)
  \/ \E t \in 1..MaxTasks : SubmitAssigned(t)
  \/ \E t \in 1..MaxTasks : SkipTask(t)
  \/ \E t \in 1..MaxTasks : DisputeLabel(t)

SpecBatches == InitLabeling /\ [][NextBatches]_vars

\* ================================================ RetrainingOrchestrator

\* RetrainingConfig of the modelled orchestrator.  Accuracies are counted in
\* hundredths, confidences and ratios in tenths.
MinSamplesForRetraining == 2
MinNewSamples == 1
MinLabeledRatio == 5
ValidationSplit == 2
MinAccuracyImprovement == 1
\* get_training_dataset(min_confidence=0.5, ...)
TrainMinConfidence == 5
\* the validation accuracies the trainer may return
ValAccs == {0, 1, 2}

TerminalStatus == {"completed", "failed"}

\* get_stats_summary
TotalSamples == Cardinality(DOMAIN samples)
LabeledSamples ==
  Cardinality({x \in DOMAIN samples : samples[x].true_label # Unlabeled})
UsedForTraining ==
  Cardinality({x \in DOMAIN samples : samples[x].used_for_training})

\* a plausible slip: any job that did not complete blocks the policy
ShouldRetrainUnlessFailed ==
  /\ ~(current_job # None /\ jobs[current_job].status # "completed")
  /\ TotalSamples >= MinSamplesForRetraining
  /\ IF TotalSamples > 0
     THEN LabeledSamples * 10 >= MinLabeledRatio * TotalSamples
     ELSE 0 >= MinLabeledRatio
  /\ TotalSamples - UsedForTraining >= MinNewSamples

\* a plausible slip: the labeling rate is not looked at
ShouldRetrainNoRatio ==
  /\ ~(current_job # None /\ jobs[current_job].status \notin TerminalStatus)
  /\ TotalSamples >= MinSamplesForRetraining
  /\ TotalSamples - UsedForTraining >= MinNewSamples

\* should_retrain
ShouldRetrain ==
  /\ ~(current_job # None /\ jobs[current_job].status \notin TerminalStatus)
  /\ TotalSamples >= MinSamplesForRetraining
  /\ IF TotalSamples > 0
     THEN LabeledSamples * 10 >= MinLabeledRatio * TotalSamples
     ELSE 0 >= MinLabeledRatio
  /\ TotalSamples - UsedForTraining >= MinNewSamples

\* get_training_dataset(min_confidence=0.5, labeled_only=True): the ids
TrainingDataset ==
  {x \in DOMAIN samples :
     /\ samples[x].confidence >= TrainMinConfidence
     /\ samples[x].true_label # Unlabeled}

\* _prepare_data: split_idx = int(len(samples) * (1 - validation_split))
SplitIndex(n) == (n * (10 - ValidationSplit)) \div 10

\* mark_used_for_training(sample_ids)
MarkUsedForTraining(ids) ==
  [x \in DOMAIN samples |->
     IF x \in ids THEN [samples[x] EXCEPT !.used_for_training = TRUE]
     ELSE samples[x]]

\* _update_job_status: the status is written to whatever job is current
UpdateJobStatus(js, status) ==
  IF current_job # None THEN [js EXCEPT ![current_job].status = status] ELSE js

\* _save_model: version = f"v{now:%Y%m%d_%H%M%S}"
VersionName(t) == Second(t) + 1

\* trigger_retraining(trigger): what it does to the orchestrator; the new
\* job's thread is the one of the job's index
TriggerBody(trigger) ==
  /\ Len(jobs) < MaxJobs
  /\ jobs' = Append(jobs, [job_id |-> Second(now), status |-> "scheduled",
                           triggered_by |-> trigger, val_accuracy |-> 0,
                           model_version |-> None, error_message |-> ""])
  /\ current_job' = Len(jobs) + 1
  /\ th_pc' = [th_pc EXCEPT ![Len(jobs) + 1] = "start"]
  /\ UNCHANGED <<now, dmVars, dcVars, lsVars, job_history, production_accuracy,
                 has_dm, th_job, th_err, th_val, th_data>>

\* trigger_retraining('manual'), as the monitoring API calls it
TriggerRetraining == TriggerBody("manual") /\ UNCHANGED loop_pc

\* start(): the scheduling loop begins to poll
StartLoop ==
  /\ loop_pc = "off"
  /\ loop_pc' = "poll"
  /\ UNCHANGED <<now, dmVars, dcVars, lsVars, jobs, current_job, job_history,
                 production_accuracy, has_dm, th_pc, th_job, th_err, th_val, th_data>>

\* _worker_loop, line 83: should_retrain() answered True
LoopPoll ==
  /\ loop_pc = "poll"
  /\ ShouldRetrain
  /\ loop_pc' = "fire"
  /\ UNCHANGED <<now, dmVars, dcVars, lsVars, jobs, current_job, job_history,
                 production_accuracy, has_dm, th_pc, th_job, th_err, th_val, th_data>>

\* _worker_loop, line 84: trigger_retraining('schedule'), then the sleep
LoopFire ==
  /\ loop_pc = "fire"
  /\ TriggerBody("schedule")
  /\ loop_pc' = "poll"

\* _run_retraining_job, line 111: job = self.current_job
JobStart(k) ==
  /\ th_pc[k] = "start"
  /\ th_job' = [th_job EXCEPT ![k] = current_job]
  /\ th_pc' = [th_pc EXCEPT ![k] = "begin"]
  /\ UNCHANGED <<now, dmVars, dcVars, lsVars, jobs, current_job, job_history,
                 production_accuracy, has_dm, loop_pc, th_err, th_val, th_data>>

\* lines 115-118: _update_job_status(PREPARING_DATA), on_job_started(job);
\* raises = the callback raises
JobBegin(k, raises) ==
  /\ th_pc[k] = "begin"
  /\ jobs' = UpdateJobStatus(jobs, "preparing_data")
  /\ th_err' = [th_err EXCEPT ![k] = IF raises THEN "on_job_started error" ELSE @]
  /\ th_pc' = [th_pc EXCEPT ![k] = IF raises THEN "except" ELSE "prepare"]
  /\ UNCHANGED <<now, dmVars, dcVars, lsVars, current_job, job_history,
                 production_accuracy, has_dm, loop_pc, th_job, th_val, th_data>>

\* lines 120-124: _prepare_data, "No training data available", TRAINING
JobPrepare(k) ==
  /\ th_pc[k] = "prepare"
  /\ IF SplitIndex(Cardinality(TrainingDataset)) = 0
     THEN /\ th_err' = [th_err EXCEPT ![k] = "No training data available"]
          /\ th_pc' = [th_pc EXCEPT ![k] = "except"]
          /\ UNCHANGED <<jobs, th_data>>
     ELSE /\ th_data' = [th_data EXCEPT ![k] = TrainingDataset]
          /\ jobs' = UpdateJobStatus(jobs, "training")
          /\ th_pc' = [th_pc EXCEPT ![k] = "train"]
          /\ UNCHANGED th_err
  /\ UNCHANGED <<now, dmVars, dcVars, lsVars, current_job, job_history,
                 production_accuracy, has_dm, loop_pc, th_job, th_val>>

\* lines 126-129: the trainer raises
JobTrainFails(k) ==
  /\ th_pc[k] = "train"
  /\ th_err' = [th_err EXCEPT ![k] = "trainer error"]
  /\ th_pc' = [th_pc EXCEPT ![k] = "except"]
  /\ UNCHANGED <<now, dmVars, dcVars, lsVars, jobs, current_job, job_history,
                 production_accuracy, has_dm, loop_pc, th_job, th_val, th_data>>

\* lines 126-129: the trainer returns val_acc = acc, VALIDATING
JobTrain(k, acc) ==
  /\ th_pc[k] = "train"
  /\ th_val' = [th_val EXCEPT ![k] = acc]
  /\ jobs' = UpdateJobStatus([jobs EXCEPT ![th_job[k]].val_accuracy = acc],
                             "validating")
  /\ th_pc' = [th_pc EXCEPT ![k] = "validate"]
  /\ UNCHANGED <<now, dmVars, dcVars, lsVars, current_job, job_history,
                 production_accuracy, has_dm, loop_pc, th_job, th_err, th_data>>

\* _validate_model
ValidateModel(val_accuracy) ==
  ~(val_accuracy < production_accuracy + MinAccuracyImprovement)

\* lines 131-133: the validation gate, DEPLOYING
JobValidate(k) ==
  /\ th_pc[k] = "validate"
  /\ IF ~ValidateModel(th_val[k])
     THEN /\ th_err' = [th_err EXCEPT ![k] = "Model validation failed"]
          /\ th_pc' = [th_pc EXCEPT ![k] = "except"]
          /\ UNCHANGED jobs
     ELSE /\ jobs' = UpdateJobStatus(jobs, "deploying")
          /\ th_pc' = [th_pc EXCEPT ![k] = "deploy"]
          /\ UNCHANGED th_err
  /\ UNCHANGED <<now, dmVars, dcVars, lsVars, current_job, job_history,
                 production_accuracy, has_dm, loop_pc, th_job, th_val, th_data>>

\* lines 134-137: _save_model, job.model_version, deployment_manager.deploy_model
JobDeploy(k) ==
  /\ th_pc[k] = "deploy"
  /\ jobs' = [jobs EXCEPT ![th_job[k]].model_version = VersionName(now)]
  /\ IF ~has_dm
     THEN /\ th_pc' = [th_pc EXCEPT ![k] = "mark"]
          /\ UNCHANGED <<now, dmVars, th_err>>
     ELSE IF VersionName(now) \notin DOMAIN registry
     THEN /\ dm_last' = [op |-> "deploy", version |-> VersionName(now),
                         devices |-> {}, result |-> "raise"]
          /\ th_err' = [th_err EXCEPT ![k] = "Unknown model version"]
          /\ th_pc' = [th_pc EXCEPT ![k] = "except"]
          /\ UNCHANGED <<now, registry, production_version, registry_file,
                         deployments, device_status, notify_device, reported>>
     ELSE /\ DeployBody("deploy", VersionName(now), {})
          /\ th_pc' = [th_pc EXCEPT ![k] = "mark"]
          /\ UNCHANGED th_err
  /\ UNCHANGED <<dcVars, lsVars, current_job, job_history, production_accuracy,
                 has_dm, loop_pc, th_job, th_val, th_data>>

\* lines 138-142: mark_used_for_training, COMPLETED, production_accuracy
JobMark(k) ==
  /\ th_pc[k] = "mark"
  /\ samples' = MarkUsedForTraining(th_data[k])
  /\ UNCHANGED <<devices_table, igVars>>
  /\ jobs' = UpdateJobStatus(jobs, "completed")
  /\ production_accuracy' = th_val[k]
  /\ th_pc' = [th_pc EXCEPT ![k] = "notify"]
  /\ UNCHANGED <<now, dmVars, lsVars, current_job, job_history, has_dm, loop_pc,
                 th_job, th_err, th_val, th_data>>

\* lines 144-145: on_job_completed(job); raises = the callback raises
JobNotify(k, raises) ==
  /\ th_pc[k] = "notify"
  /\ th_err' = [th_err EXCEPT ![k] = IF raises THEN "callback error" ELSE @]
  /\ th_pc' = [th_pc EXCEPT ![k] = IF raises THEN "except" ELSE "finally"]
  /\ UNCHANGED <<now, dmVars, dcVars, lsVars, jobs, current_job, job_history,
                 production_accuracy, has_dm, loop_pc, th_job, th_val, th_data>>

\* lines 146-150: the except clause
JobExcept(k) ==
  /\ th_pc[k] = "except"
  /\ jobs' = UpdateJobStatus([jobs EXCEPT ![th_job[k]].error_message = th_err[k]],
                             "failed")
  /\ th_pc' = [th_pc EXCEPT ![k] = "finally"]
  /\ UNCHANGED <<now, dmVars, dcVars, lsVars, current_job, job_history,
                 production_accuracy, has_dm, loop_pc, th_job, th_err, th_val, th_data>>

\* lines 153-154: the finally clause
JobFinally(k) ==
  /\ th_pc[k] = "finally"
  /\ job_history' = Append(job_history, th_job[k])
  /\ th_pc' = [th_pc EXCEPT ![k] = "done"]
  /\ UNCHANGED <<now, dmVars, dcVars, lsVars, jobs, current_job,
                 production_accuracy, has_dm, loop_pc, th_job, th_err, th_val, th_data>>

\* an orchestrator constructed on a database of NumSamples samples, some of
\* them labeled, with or without a deployment manager; the manager's registry
\* is empty or already lists the version names of the clock's seconds
InitRetraining ==
  /\ IdleLabeling /\ IdleIngest
  /\ now = 1
  /\ samples \in [SampleIds -> [confidence : {6}, true_label : {Unlabeled, 0},
                                used_for_training : {FALSE}]]
  /\ devices_table = StoredDevices(samples)
  /\ has_dm \in BOOLEAN
  /\ registry \in {<< >>} \cup
       (IF has_dm
        THEN {[v \in 1..VersionName(MaxClock) |->
                 [hash_sha256 |-> 1, deployed_at |-> None, is_production |-> FALSE]]}
        ELSE {})
  /\ production_version = None
  /\ registry_file = SaveRegistry(registry, None)
  /\ deployments = << >>
  /\ device_status = << >>
  /\ notify_device = FALSE
  /\ dm_last = [op |-> "init", version |-> None, devices |-> {}, result |-> "ok"]
  /\ reported = [d \in Devices |-> {}]
  /\ jobs = << >>
  /\ current_job = None
  /\ job_history = << >>
  /\ production_accuracy = 0
  /\ loop_pc = "off"
  /\ th_pc = [k \in JobThreads |-> "unborn"]
  /\ th_job = [k \in JobThreads |-> None]
  /\ th_err = [k \in JobThreads |-> ""]
  /\ th_val = [k \in JobThreads |-> 0]
  /\ th_data = [k \in JobThreads |-> {}]

NextRetraining ==
  \/ TriggerRetraining
  \/ StartLoop
  \/ LoopPoll
  \/ LoopFire
  \/ \E k \in JobThreads : JobStart(k)
  \/ \E k \in JobThreads, r \in BOOLEAN : JobBegin(k, r)
  \/ \E k \in JobThreads : JobPrepare(k)
  \/ \E k \in JobThreads : JobTrainFails(k)
  \/ \E k \in JobThreads, acc \in ValAccs : JobTrain(k, acc)
  \/ \E k \in JobThreads : JobValidate(k)
  \/ \E k \in JobThreads : JobDeploy(k)
  \/ \E k \in JobThreads : JobMark(k)
  \/ \E k \in JobThreads, r \in BOOLEAN : JobNotify(k, r)
  \/ \E k \in JobThreads : JobExcept(k)
  \/ \E k \in JobThreads : JobFinally(k)
  \/ Tick

SpecRetraining == InitRetraining /\ [][NextRetraining]_vars

\* the steps of the job threads
JobSteps ==
  \/ \E k \in JobThreads : JobStart(k)
  \/ \E k \in JobThreads, r \in BOOLEAN : JobBegin(k, r)
  \/ \E k \in JobThreads : JobPrepare(k)
  \/ \E k \in JobThreads : JobTrainFails(k)
  \/ \E k \in JobThreads, acc \in ValAccs : JobTrain(k, acc)
  \/ \E k \in JobThreads : JobValidate(k)
  \/ \E k \in JobThreads : JobDeploy(k)
  \/ \E k \in JobThreads : JobMark(k)
  \/ \E k \in JobThreads, r \in BOOLEAN : JobNotify(k, r)
  \/ \E k \in JobThreads : JobExcept(k)
  \/ \E k \in JobThreads : JobFinally(k)

\* the orchestrator driven by its scheduling loop alone: no manual trigger;
\* the loop, once started, and the job threads keep being scheduled
NextSchedule ==
  \/ StartLoop
  \/ LoopPoll
  \/ LoopFire
  \/ JobSteps

SpecSchedule ==
  /\ InitRetraining
  /\ [][NextSchedule]_vars
  /\ WF_vars(LoopPoll)
  /\ WF_vars(LoopFire)
  /\ WF_vars(JobSteps)

\* ========================================= DataCollector: ingestion

\* buffer_size of the modelled collector, and the number of samples ingested
BufferSize == 2
MaxIngest == 3

Range(seq) == {seq[i] : i \in DOMAIN seq}

\* the row an INSERT INTO samples writes for an ingested sample
IngestedRow ==
  [confidence |-> 6, true_label |-> Unlabeled, used_for_training |-> FALSE]

\* the samples table after the INSERTs of a committed batch; a row takes the
\* true_label of its sample_data
InsertRows(batch) ==
  samples \o [i \in DOMAIN batch |->
               [IngestedRow EXCEPT !.true_label = sample_label[batch[i]]]]

\* the devices table after the upserts of a committed batch: the first sample
\* of the device inserts its row (total_samples 1, labeled_samples by default
\* 0), every other one adds 1 to total_samples
UpsertDevices(batch) ==
  IF batch = << >>
  THEN devices_table
  ELSE IF devices_table = << >>
       THEN <<[total_samples |-> Len(batch), labeled_samples |-> 0]>>
       ELSE [d \in DOMAIN devices_table |->
               [devices_table[d] EXCEPT !.total_samples = @ + Len(batch)]]

\* start()
Start ==
  /\ wk_pc = "unborn"
  /\ st_pc = "idle"
  /\ dc_running' = TRUE
  /\ wk_pc' = "loop"
  /\ UNCHANGED <<now, dmVars, lsVars, roVars, samples, devices_table, sample_label,
                 sample_queue, buffer,
                 accepted, durable, wk_batch, st_pc, st_batch, at_stop>>

\* receive_sample(sample_data): the sample is queued and True is returned
ReceiveSample(label) ==
  /\ accepted < MaxIngest
  /\ sample_queue' = Append(sample_queue, accepted + 1)
  /\ sample_label' = Append(sample_label, label)
  /\ accepted' = accepted + 1
  /\ UNCHANGED <<now, dmVars, lsVars, roVars, samples, devices_table, buffer, durable,
                 dc_running,
                 wk_pc, wk_batch, st_pc, st_batch, at_stop>>

\* _worker_loop, line 78: while self.running
WorkerLoop ==
  /\ wk_pc = "loop"
  /\ wk_pc' = IF dc_running THEN "drain" ELSE "exit"
  /\ UNCHANGED <<now, dmVars, lsVars, roVars, samples, devices_table, sample_label,
                 sample_queue, buffer,
                 accepted, durable, dc_running, wk_batch, st_pc, st_batch, at_stop>>

\* _worker_loop, lines 80-82: one round of the inner loop, with _add_to_buffer
WorkerDrain ==
  /\ wk_pc = "drain"
  /\ IF sample_queue # << >>
     THEN /\ buffer' = Append(buffer, Head(sample_queue))
          /\ sample_queue' = Tail(sample_queue)
          /\ UNCHANGED wk_pc
     ELSE /\ wk_pc' = "check"
          /\ UNCHANGED <<sample_queue, buffer>>
  /\ UNCHANGED <<now, dmVars, lsVars, roVars, samples, devices_table, sample_label,
                 accepted, durable,
                 dc_running, wk_batch, st_pc, st_batch, at_stop>>

\* _worker_loop, line 85: if len(self.buffer) >= self.buffer_size
WorkerCheck ==
  /\ wk_pc = "check"
  /\ wk_pc' = IF Len(buffer) >= BufferSize THEN "take" ELSE "loop"
  /\ UNCHANGED <<now, dmVars, lsVars, roVars, samples, devices_table, sample_label,
                 sample_queue, buffer,
                 accepted, durable, dc_running, wk_batch, st_pc, st_batch, at_stop>>

\* _flush_buffer, lines 115-119, called by the worker: the buffer is copied
\* and cleared under the lock
WorkerTake ==
  /\ wk_pc = "take"
  /\ IF buffer = << >>
     THEN /\ wk_pc' = "loop"
          /\ UNCHANGED <<buffer, wk_batch>>
     ELSE /\ wk_batch' = buffer
          /\ buffer' = << >>
          /\ wk_pc' = "write"
  /\ UNCHANGED <<now, dmVars, lsVars, roVars, samples, devices_table, sample_label,
                 sample_queue, accepted,
                 durable, dc_running, st_pc, st_batch, at_stop>>

\* _flush_buffer, lines 120-134, called by the worker: the INSERTs and the
\* commit (ok), or an exception and the rollback
WorkerWrite(ok) ==
  /\ wk_pc = "write"
  /\ samples' = IF ok THEN InsertRows(wk_batch) ELSE samples
  /\ devices_table' = IF ok THEN UpsertDevices(wk_batch) ELSE devices_table
  /\ durable' = IF ok THEN durable \cup Range(wk_batch) ELSE durable
  /\ wk_batch' = << >>
  /\ wk_pc' = "loop"
  /\ UNCHANGED <<now, dmVars, lsVars, roVars, sample_label, sample_queue, buffer, accepted,
                 dc_running, st_pc, st_batch, at_stop>>

\* stop(), line 71: self.running = False
Stop ==
  /\ st_pc = "idle"
  /\ dc_running' = FALSE
  /\ at_stop' = accepted
  /\ st_pc' = "join"
  /\ UNCHANGED <<now, dmVars, lsVars, roVars, samples, devices_table, sample_label,
                 sample_queue, buffer,
                 accepted, durable, wk_pc, wk_batch, st_batch>>

\* stop(), lines 72-73: join(timeout=5) returns, because the worker has left
\* its loop (or was never started) or because the five seconds have passed
StopJoin(timeout) ==
  /\ st_pc = "join"
  /\ wk_pc \in {"unborn", "exit"} \/ timeout
  /\ st_pc' = "take"
  /\ UNCHANGED <<now, dmVars, lsVars, roVars, samples, devices_table, sample_label,
                 sample_queue, buffer,
                 accepted, durable, dc_running, wk_pc, wk_batch, st_batch, at_stop>>

\* _flush_buffer, lines 115-119, called by stop()
StopTake ==
  /\ st_pc = "take"
  /\ IF buffer = << >>
     THEN /\ st_pc' = "stopped"
          /\ UNCHANGED <<buffer, st_batch>>
     ELSE /\ st_batch' = buffer
          /\ buffer' = << >>
          /\ st_pc' = "write"
  /\ UNCHANGED <<now, dmVars, lsVars, roVars, samples, devices_table, sample_label,
                 sample_queue, accepted,
                 durable, dc_running, wk_pc, wk_batch, at_stop>>

\* _flush_buffer, lines 120-134, called by stop(); stop() then returns
StopWrite(ok) ==
  /\ st_pc = "write"
  /\ samples' = IF ok THEN InsertRows(st_batch) ELSE samples
  /\ devices_table' = IF ok THEN UpsertDevices(st_batch) ELSE devices_table
  /\ durable' = IF ok THEN durable \cup Range(st_batch) ELSE durable
  /\ st_batch' = << >>
  /\ st_pc' = "stopped"
  /\ UNCHANGED <<now, dmVars, lsVars, roVars, sample_label, sample_queue, buffer, accepted,
                 dc_running, wk_pc, wk_batch, at_stop>>

\* a collector as constructed on an empty database
InitIngest ==
  /\ IdleRegistry /\ IdleLabeling /\ IdleOrchestrator /\ IdleStore
  /\ now = 1

\* the steps of the collector's worker thread and of a stop() call under way
WorkerSteps(ok) ==
  \/ WorkerLoop
  \/ WorkerDrain
  \/ WorkerCheck
  \/ WorkerTake
  \/ WorkerWrite(ok)

StopSteps(ok) ==
  \/ \E timeout \in BOOLEAN : StopJoin(timeout)
  \/ StopTake
  \/ StopWrite(ok)

\* ingestion with storage writes that may fail
NextIngest ==
  \/ Start
  \/ \E label \in {Unlabeled, 0} : ReceiveSample(label)
  \/ Stop
  \/ \E ok \in BOOLEAN : WorkerSteps(ok)
  \/ \E ok \in BOOLEAN : StopSteps(ok)

SpecIngest == InitIngest /\ [][NextIngest]_vars

\* set_label(sample_id, label) called on the collector for a stored sample
SetLabelCall(x, label) ==
  /\ x \in DOMAIN samples
  /\ \A d \in DOMAIN devices_table : devices_table[d].labeled_samples < MaxSetLabel
  /\ samples' = SetLabel(x, label)
  /\ devices_table' = CountLabeled(x)
  /\ UNCHANGED <<now, dmVars, lsVars, roVars, igVars>>

\* ingestion of samples with or without a true_label, and labels set on the
\* stored samples
NextStore ==
  \/ NextIngest
  \/ \E x \in 1..MaxIngest : SetLabelCall(x, 0)

SpecStore == InitIngest /\ [][NextStore]_vars

\* ingestion with storage writes that succeed; the worker thread and a
\* stop() call under way keep being scheduled
NextDurable ==
  \/ Start
  \/ \E label \in {Unlabeled, 0} : ReceiveSample(label)
  \/ Stop
  \/ WorkerSteps(TRUE)
  \/ StopSteps(TRUE)

SpecDurable ==
  /\ InitIngest
  /\ [][NextDurable]_vars
  /\ WF_vars(WorkerSteps(TRUE))
  /\ WF_vars(StopSteps(TRUE))

\* ------------------------------------------------ properties: LabelingQueue

\* C3: task claiming is race-free.  No task is ever returned by
\* get_next_task(labeler_id) to two different labelers.
C3_NoDoubleClaim ==
  \A p \in handed : \A q \in handed : p[2] = q[2] => p[1] = q[1]

\* C4: single live task per sample.  In every reachable state each sample id
\* is referenced by at most one task whose status is PENDING or IN_PROGRESS.
C4_SingleLiveTask ==
  \A x \in SampleIds :
    Cardinality({t \in DOMAIN tasks :
                   /\ tasks[t].sample_id = x
                   /\ tasks[t].status \in {"pending", "in_progress"}}) <= 1

\* the edges of the task state machine
TaskEdges ==
  {<<"pending", "in_progress">>, <<"in_progress", "labeled">>,
   <<"in_progress", "skipped">>, <<"labeled", "disputed">>}

\* C5: a task's status changes only along PENDING -> IN_PROGRESS ->
\* {LABELED, SKIPPED} and LABELED -> DISPUTED; in particular nothing leaves
\* SKIPPED or DISPUTED.
C5_TaskTransitions ==
  [][\A t \in DOMAIN tasks :
       tasks'[t].status # tasks[t].status
         => <<tasks[t].status, tasks'[t].status>> \in TaskEdges]_vars


\* ------------------------------------------------ properties: RetrainingOrchestrator

RunningThreads == {k \in JobThreads : th_pc[k] \notin {"unborn", "done"}}

\* C1: single-flight retraining.  At every moment at most one retraining job
\* is non-terminal and at most one job-execution thread is running, whoever
\* called trigger (the manual entry point or the scheduling loop).
C1_SingleFlight ==
  /\ Cardinality({i \in DOMAIN jobs : jobs[i].status \notin TerminalStatus}) <= 1
  /\ Cardinality(RunningThreads) <= 1

JobEdges ==
  {<<"scheduled", "preparing_data">>, <<"preparing_data", "training">>,
   <<"training", "validating">>, <<"validating", "deploying">>,
   <<"deploying", "completed">>} \cup
  {<<st, "failed">> : st \in {"scheduled", "preparing_data", "training",
                              "validating", "deploying"}}

\* C6: a job's status changes only along SCHEDULED -> PREPARING_DATA ->
\* TRAINING -> VALIDATING -> DEPLOYING -> COMPLETED or to FAILED from a
\* non-terminal status, COMPLETED and FAILED are never left, and the status of
\* a job is changed only by the thread that executes that job.
C6_JobTransitions ==
  [][\A i \in DOMAIN jobs :
       jobs'[i].status # jobs[i].status =>
         /\ <<jobs[i].status, jobs'[i].status>> \in JobEdges
         /\ \A k \in JobThreads : th_pc'[k] # th_pc[k] => th_job[k] = i]_vars

EarlyErrors ==
  {"on_job_started error", "No training data available", "trainer error",
   "Model validation failed"}

\* C7: a job whose data preparation, training and validation succeeded has,
\* once it is past the deployment step, a model_version that is registered in
\* the registry and was deployed; after that its train and validation samples
\* are marked used_for_training, and it ends COMPLETED.
C7_DeployingOrder ==
  \A k \in JobThreads :
    (th_pc[k] \in {"mark", "notify", "except", "finally", "done"}
       /\ th_err[k] \notin EarlyErrors) =>
      LET job == jobs[th_job[k]] IN
      /\ job.model_version # None
      /\ job.model_version \in DOMAIN registry
      /\ registry[job.model_version].deployed_at # None
      /\ th_pc[k] \in {"notify", "finally", "done"} =>
           \A x \in th_data[k] : samples[x].used_for_training
      /\ th_pc[k] = "done" => job.status = "completed"


\* ------------------------------------------------ properties: DataCollector ingestion

\* C11: no sample for which receive_sample returned True is dropped by a flush
\* whose write failed: every accepted sample is still queued, buffered, in a
\* batch being written, or durable.
C11_NoSampleDropped ==
  \A t \in 1..accepted :
    t \in Range(sample_queue) \cup Range(buffer) \cup Range(wk_batch)
          \cup Range(st_batch) \cup durable

\* C12: while the worker is running and writes succeed, every accepted sample
\* is eventually durable, without stop() and even when fewer than buffer_size
\* samples have been ingested.
C12_EventualDurability ==
  \A t \in 1..MaxIngest :
    (accepted >= t /\ dc_running) ~> (t \in durable \/ ~dc_running)

\* C13: after stop() has returned and the worker has left its loop, with
\* writes succeeding, every sample accepted before stop() was called is
\* durable, the samples that were still in the ingestion queue included.
C13_StopDrains ==
  (st_pc = "stopped" /\ wk_pc = "exit") => \A t \in 1..at_stop : t \in durable


\* ------------------------------------------------ properties: retraining jobs

\* C14: every triggered job ends COMPLETED or FAILED (once no job thread is
\* running, every job is terminal), a failed step ends the job FAILED with the
\* exception message in error_message, and every job is in the job history
\* exactly once, in a terminal status.
C14_JobsEndInHistory ==
  /\ \A i, j \in DOMAIN job_history :
       i # j => job_history[i] # job_history[j]
  /\ \A i \in DOMAIN job_history :
       jobs[job_history[i]].status \in TerminalStatus
  /\ \A k \in JobThreads :
       (th_pc[k] = "done" /\ th_err[k] # "") =>
         /\ jobs[th_job[k]].status = "failed"
         /\ jobs[th_job[k]].error_message = th_err[k]
  /\ RunningThreads = {} =>
       \A j \in DOMAIN jobs :
         /\ jobs[j].status \in TerminalStatus
         /\ j \in Range(job_history)

\* C15: a job whose validation accuracy is below production_accuracy +
\* min_accuracy_improvement ends FAILED with a non-empty error_message and
\* without a saved and deployed model version.
C15_ValidationGate ==
  \A k \in JobThreads :
    (th_pc[k] \in {"finally", "done"} /\ th_err[k] = "Model validation failed") =>
      /\ jobs[th_job[k]].status = "failed"
      /\ jobs[th_job[k]].error_message # ""
      /\ jobs[th_job[k]].model_version = None


\* the three thresholds of the retraining policy, as the specification words
\* them; labeling_rate is labeled / total, 0 on an empty database
PolicyMet ==
  /\ TotalSamples >= MinSamplesForRetraining
  /\ TotalSamples > 0
  /\ 10 * LabeledSamples >= MinLabeledRatio * TotalSamples
  /\ TotalSamples - UsedForTraining >= MinNewSamples

\* C16: after a job has ended FAILED, the scheduling loop keeps polling, and
\* with the policy's thresholds met it triggers a new job with reason
\* "schedule": a FAILED current job does not block the loop.
C16_LoopSurvivesFailure ==
  \A n \in 1..(MaxJobs - 1) :
    (/\ Len(jobs) = n
     /\ loop_pc = "poll"
     /\ RunningThreads = {}
     /\ current_job # None
     /\ jobs[current_job].status = "failed"
     /\ PolicyMet)
      ~> (Len(jobs) > n /\ jobs[n + 1].triggered_by = "schedule")

C16_Witness ==
  \E n \in 1..(MaxJobs - 1) :
    /\ Len(jobs) > n
    /\ jobs[n].status = "failed"
    /\ jobs[n].error_message \in {"No training data available", "Model validation failed"}
    /\ n \in Range(job_history)
    /\ jobs[n + 1].triggered_by = "schedule"

\* C17: should_retrain() is false whenever the current job is non-terminal,
\* and otherwise true exactly when the three thresholds are met.
C17_ShouldRetrainPolicy ==
  ShouldRetrain <=>
    IF current_job # None /\ jobs[current_job].status \notin TerminalStatus
    THEN FALSE
    ELSE PolicyMet

C17_Witness ==
  /\ loop_pc = "fire"
  /\ current_job # None
  /\ jobs[current_job].status \in TerminalStatus
  /\ PolicyMet


\* ------------------------------------------------ properties: task priority

StatusRank(st) ==
  CASE st = "pending" -> 0
    [] st = "notified" -> 1
    [] st = "downloading" -> 2
    [] st = "installing" -> 3
    [] st = "completed" -> 4
    [] OTHER -> 5

\* C19: within one rollout report_device_status only advances a device's
\* status: it moves forward along NOTIFIED, DOWNLOADING, INSTALLING, COMPLETED
\* or to FAILED, and never from COMPLETED or FAILED back to an earlier status.
C19_StatusOnlyAdvances ==
  [][\A d \in DOMAIN device_status :
       (/\ dm_last'.op = "report"
        /\ d \in DOMAIN device_status'
        /\ device_status'[d].status # device_status[d].status) =>
         \/ device_status'[d].status = "failed"
         \/ /\ device_status[d].status # "failed"
            /\ StatusRank(device_status'[d].status) > StatusRank(device_status[d].status)]_vars


\* ------------------------------------------------ properties: registration

\* C20: register_model fails when the version is already in the registry or
\* the source artifact is missing, and a failed registration leaves the
\* registry, the existing entry of the version included, as it was.
C20_RegisterRefusesExisting ==
  [][(dm_last'.op = "register" /\ dm_last' # dm_last) =>
       /\ dm_last'.version \in DOMAIN registry => dm_last'.result = "raise"
       /\ dm_last'.result = "raise" => registry' = registry]_vars


\* ------------------------------------------------ properties: rollback

C22_UnknownIdNoRaise ==
  [][(/\ dm_last' # dm_last
      /\ \/ /\ dm_last'.op \in {"deploy", "rollback"}
            /\ dm_last'.version \notin DOMAIN registry
         \/ /\ dm_last'.op = "report"
            /\ dm_last'.devices \cap DOMAIN device_status = {}) =>
       /\ dm_last'.result # "raise"
       /\ UNCHANGED <<registry, production_version, registry_file, deployments,
                      device_status>>]_vars

\* ------------------------------------------------- properties: SampleStore

\* C23: set_label is idempotent per sample id: a submit_label step that calls
\* set_label(sample_id, label) for a sample whose true_label is that label
\* already (a second call with the same arguments) leaves the sample rows and
\* the devices table, labeled_samples included, as the first call left them.
C23_SetLabelIdempotent ==
  [][\A t \in 1..MaxTasks :
       (/\ SubmitAssigned(t)
        /\ samples[tasks[t].sample_id].true_label = 0) =>
         UNCHANGED <<samples, devices_table>>]_vars

\* ------------------------------------------- properties: complete updates

\* C24: no call leaves a partial update behind: in every reachable state every
\* task in status IN_PROGRESS has an assignee and an assigned_at, and every
\* model flagged as production has a deployed_at.
C24_NoPartialUpdate ==
  /\ \A t \in DOMAIN tasks :
       tasks[t].status = "in_progress" =>
         tasks[t].assigned_to # None /\ tasks[t].assigned_at # None
  /\ \A v \in DOMAIN registry :
       registry[v].is_production => registry[v].deployed_at # None

C24_Witness ==
  /\ \E t \in DOMAIN tasks : tasks[t].status = "in_progress"
  /\ \E v \in DOMAIN registry : registry[v].is_production
  /\ dm_last.op = "rollback"
  /\ dm_last.result = "ok"

\* ------------------------------------------- properties: persistence

\* C25: registry persistence round trip: in every state reached by
\* register_model, deploy_model and rollback calls, loading the persisted
\* document (a process restart) yields the versions of the in-memory registry
\* with the same hash, deployed_at and is_production, and the same production
\* version pointer.
C25_PersistenceRoundTrip ==
  /\ LoadRegistry(registry_file) = registry
  /\ LoadProduction(registry_file) = production_version

\* C28: the production pointer and the per-model flag agree in every reachable
\* state: production_version = v exactly when registry[v] exists with
\* is_production set, also after a version is registered again.
C28_PointerMatchesFlag ==
  \A v \in Versions :
    (production_version = v) <=>
      (v \in DOMAIN registry /\ registry[v].is_production)

\* ------------------------------------------- properties: labeler statistics

\* C26: after any sequence of submit_label calls, a labeler's completed is the
\* number of tasks that carry a label assigned by that labeler, and its
\* agreement_rate is the number of those tasks whose assigned label is the
\* predicted label, over completed (agreed is the numerator of the rate).
C26_LabelerStats ==
  \A l \in Labelers :
    LET mine == {t \in DOMAIN tasks :
                   tasks[t].assigned_label # Unlabeled /\ tasks[t].assigned_to = l}
    IN /\ labeler_stats[l].completed = Cardinality(mine)
       /\ labeler_stats[l].agreed =
            Cardinality({t \in mine : tasks[t].assigned_label = tasks[t].predicted_label})

\* ------------------------------------------- properties: batch selection

\* C27: a create_labeling_batch(n, "uncertainty") call made with no ingestion
\* and no labeling since the earlier calls returns task ids that no earlier
\* call returned, for samples that have no live (PENDING or IN_PROGRESS) task
\* of an earlier call, one task per sample; the earlier tasks stay as they are.
C27_BatchesDisjoint ==
  [][task_counter' > task_counter =>
       LET new == (task_counter + 1)..task_counter'
           live == {t \in DOMAIN tasks : tasks[t].status \in {"pending", "in_progress"}}
       IN /\ new \cap DOMAIN tasks = {}
          /\ DOMAIN tasks' = DOMAIN tasks \cup new
          /\ \A t \in DOMAIN tasks : tasks'[t] = tasks[t]
          /\ \A t \in new : \A u \in live : tasks'[t].sample_id # tasks[u].sample_id
          /\ \A t, u \in new : t # u => tasks'[t].sample_id # tasks'[u].sample_id]_vars

\* two calls one after the other: the task of the second call was created
\* later than the task of the first, which is still PENDING
C27_Witness ==
  /\ task_counter = 2
  /\ tasks[1].status = "pending"
  /\ tasks[2].created_at > tasks[1].created_at
  /\ tasks[2].sample_id # tasks[1].sample_id

\* ------------------------------------------- properties: deployment ids

\* C29: every deploy_model call that goes through, the one made by rollback
\* included, files its DeploymentJob under an id that no existing deployment
\* has: the deployments grow by one and every earlier record stays as it was,
\* also when two deploys fall within the same clock second.
C29_DeploymentIdsDistinct ==
  [][(registry' # registry /\ now' # now) =>
       /\ Cardinality(DOMAIN deployments') = Cardinality(DOMAIN deployments) + 1
       /\ \A id \in DOMAIN deployments :
            id \in DOMAIN deployments' /\ deployments'[id] = deployments[id]]_vars

\* ------------------------------------------- properties: device counters

\* C30: in every committed state of the store the counters of a device match
\* its stored samples: total_samples is the number of its persisted samples
\* and labeled_samples the number of those whose true_label is set, after any
\* sequence of ingest (with or without a true_label), flush and set_label.
C30_DeviceCounters ==
  /\ devices_table = << >> => samples = << >>
  /\ \A d \in DOMAIN devices_table :
       /\ devices_table[d].total_samples = Len(samples)
       /\ devices_table[d].labeled_samples =
            Cardinality({x \in DOMAIN samples : samples[x].true_label # Unlabeled})

====
